---- MODULE Spec2Model ----
(***************************************************************************)
(* A model of app.py: the URL resolver (extract_video_id), the transcript  *)
(* fetcher (get_transcript), the analysis generator with its JSON recovery *)
(* (analyze_transcript), the question answerer (answer_question) and the   *)
(* two Flask handlers (index, ask_question_route).                         *)
(*                                                                         *)
(* Text is modelled as a sequence of one-character strings, so that        *)
(* slicing, searching, splitting and parsing are computed character by     *)
(* character as the code (and the library calls it makes) computes them.   *)
(* A Python value that may be None is a sequence of length 0 (None) or 1   *)
(* (the value).                                                            *)
(***************************************************************************)
EXTENDS Integers, Sequences, FiniteSets, TLC

VARIABLES
    route,        \* request.method and the route it was sent to
    url_parts,    \* the parts the client composed video_url of (not read by the code)
    pc,           \* position of the request in its handler
    video_url,    \* index: request.form.get("video_url")
    video_id,     \* index: extract_video_id(video_url)
    transcript,   \* index: the transcript held by the handler
    raw_text,     \* analyze_transcript: response.text.strip()
    temp_string,  \* analyze_transcript: the candidate being trimmed
    analysis,     \* index: what analyze_transcript returned
    data,         \* ask_question_route: request.get_json()
    response,     \* the responses sent for the request, in order
    calls         \* the external calls made for the request, in order

vars == <<route, url_parts, pc, video_url, video_id, transcript, raw_text, temp_string,
          analysis, data, response, calls>>

-----------------------------------------------------------------------------
(* Bounds of the model.                                                    *)

\* query parameters in a generated URL
MaxParams == 2
\* caption fragments the transcript service returns
MaxFragments == 2
\* characters of free text before the JSON body of an LLM answer
MaxPrefix == 1
\* characters of free text after the JSON body of an LLM answer
MaxSuffix == 2

-----------------------------------------------------------------------------
(* Python values.                                                          *)

None == <<>>
Some(x) == <<x>>

\* Python truthiness of an optional string or dict: None, "" and {} are falsy.
Truthy(v) == v # None /\ v[1] # <<>>

\* F applied to the value of x: x is evaluated once and named, as an
\* assignment to a local variable does.
Let(x, F(_)) == CHOOSE r \in {F(v) : v \in {x}} : TRUE

Min(S) == CHOOSE x \in S : \A y \in S : x <= y
Max(S) == CHOOSE x \in S : \A y \in S : x >= y

\* str.find(c, start): the first position >= start holding c; 0 when there is
\* none (Python's -1).
Find(s, c, start) ==
    LET I == {i \in start..Len(s) : s[i] = c}
    IN IF I = {} THEN 0 ELSE Min(I)

\* str.rfind(c): the last position holding c; 0 when there is none.
RFind(s, c) ==
    LET I == {i \in 1..Len(s) : s[i] = c}
    IN IF I = {} THEN 0 ELSE Max(I)

Contains(s, c) == \E i \in 1..Len(s) : s[i] = c

\* str.startswith(p)
StartsWith(s, p) == Len(s) >= Len(p) /\ SubSeq(s, 1, Len(p)) = p

\* str.split(c): the pieces between the occurrences of c, empty ones kept.
RECURSIVE Split(_, _)
Split(s, c) ==
    Let(Find(s, c, 1), LAMBDA i :
        IF i = 0 THEN <<s>>
        ELSE <<SubSeq(s, 1, i - 1)>>
             \o Let(SubSeq(s, i + 1, Len(s)), LAMBDA rest : Split(rest, c)))

\* str.strip(): leading and trailing whitespace removed (the model's only
\* whitespace character is the space).
Strip(s) ==
    LET I == {i \in 1..Len(s) : s[i] # " "}
    IN IF I = {} THEN <<>> ELSE SubSeq(s, Min(I), Max(I))

\* " ".join(items)
RECURSIVE JoinSpace(_)
JoinSpace(items) ==
    IF items = <<>> THEN <<>>
    ELSE IF Len(items) = 1 THEN items[1]
    ELSE items[1] \o <<" ">> \o JoinSpace(Tail(items))

\* All sequences over A of length at most n.
SeqsUpTo(A, n) == UNION {[1..k -> A] : k \in 0..n}

-----------------------------------------------------------------------------
(* urllib.parse, as extract_video_id uses it.  The model's URL alphabet is *)
(* lower- and upper-case letters, the digit 1, '.', and the delimiters     *)
(* : / ? # [ ] @ = & +                                                     *)

Delimiters == {":", "/", "?", "#", "[", "]", "@", "=", "&", " "}

\* A character urlsplit accepts inside a scheme (letters, digits, + - .).
SchemeChar(c) == c \notin Delimiters

\* A letter: what urlsplit requires of a scheme's first character.
Alpha(c) == c \notin Delimiters \cup {".", "1", "+", "-"}

\* _splitnetloc(url, 2): the authority ends at the first of / ? #.
NetlocEnd(u) ==
    LET I == {i \in 3..Len(u) : u[i] \in {"/", "?", "#"}}
    IN IF I = {} THEN Len(u) + 1 ELSE Min(I)

\* urlparse(url) for a str: scheme, netloc, path, query and fragment, or the
\* ValueError("Invalid IPv6 URL") that urlsplit raises when the authority
\* holds one square bracket without the other.
urlparse(url) ==
    Let(Find(url, ":", 1), LAMBDA colon :
    Let(/\ colon > 1
        /\ Alpha(url[1])
        /\ \A i \in 1..(colon - 1) : SchemeChar(url[i]), LAMBDA hasScheme :
    Let(IF hasScheme THEN SubSeq(url, colon + 1, Len(url)) ELSE url, LAMBDA u1 :
    Let(Len(u1) >= 2 /\ u1[1] = "/" /\ u1[2] = "/", LAMBDA hasNetloc :
    Let(IF hasNetloc THEN NetlocEnd(u1) ELSE 1, LAMBDA cut :
    Let(IF hasNetloc THEN SubSeq(u1, 3, cut - 1) ELSE <<>>, LAMBDA netloc :
    Let(IF hasNetloc THEN SubSeq(u1, cut, Len(u1)) ELSE u1, LAMBDA u2 :
    Let(Find(u2, "#", 1), LAMBDA hash :
    Let(IF hash = 0 THEN u2 ELSE SubSeq(u2, 1, hash - 1), LAMBDA u3 :
    Let(Find(u3, "?", 1), LAMBDA qmark :
        [raised |-> Contains(netloc, "[") # Contains(netloc, "]"),
         scheme |-> IF hasScheme THEN SubSeq(url, 1, colon - 1) ELSE <<>>,
         netloc |-> netloc,
         path |-> IF qmark = 0 THEN u3 ELSE SubSeq(u3, 1, qmark - 1),
         query |-> IF qmark = 0 THEN <<>> ELSE SubSeq(u3, qmark + 1, Len(u3)),
         fragment |-> IF hash = 0 THEN <<>> ELSE SubSeq(u2, hash + 1, Len(u2))]
    ))))))))))

\* ParseResult.hostname: the authority without its userinfo and port, the
\* text between the brackets for a bracketed host; None when it is empty.
hostname(netloc) ==
    Let(SubSeq(netloc, RFind(netloc, "@") + 1, Len(netloc)), LAMBDA hostinfo :
    Let(Find(hostinfo, "[", 1), LAMBDA open :
    Let(SubSeq(hostinfo, open + 1, Len(hostinfo)), LAMBDA bracketed :
    Let(Find(bracketed, "]", 1), LAMBDA close :
    Let(Find(hostinfo, ":", 1), LAMBDA colon :
    Let(IF open # 0
        THEN (IF close = 0 THEN bracketed ELSE SubSeq(bracketed, 1, close - 1))
        ELSE (IF colon = 0 THEN hostinfo ELSE SubSeq(hostinfo, 1, colon - 1)),
        LAMBDA host : IF host = <<>> THEN None ELSE Some(host)
    ))))))

\* The form decoding parse_qsl applies to a name or value: '+' is a space.
PlusToSpace(s) == [i \in 1..Len(s) |-> IF s[i] = "+" THEN " " ELSE s[i]]

\* parse_qsl(query): the (name, value) pairs of the '&'-separated fields,
\* in order. A field without '=' and a field whose value is empty are
\* dropped (keep_blank_values is False).
RECURSIVE QslOfFields(_)
QslOfFields(fields) ==
    IF fields = <<>> THEN <<>>
    ELSE Let(Head(fields), LAMBDA f :
         Let(Find(f, "=", 1), LAMBDA eq :
         Let(PlusToSpace(SubSeq(f, 1, eq - 1)), LAMBDA name :
         Let(PlusToSpace(SubSeq(f, eq + 1, Len(f))), LAMBDA value :
             IF eq = 0 \/ value = <<>> THEN <<>> ELSE <<(<<name, value>>)>>))))
         \o Let(Tail(fields), LAMBDA rest : QslOfFields(rest))

parse_qsl(query) == Let(Split(query, "&"), LAMBDA fields : QslOfFields(fields))

\* Mutant of QsGetFirst: the last value of the name instead of the first.
QsGetLast(query, name) ==
    Let(SelectSeq(parse_qsl(query), LAMBDA p : p[1] = name), LAMBDA hits :
        IF hits = <<>> THEN None ELSE Some(hits[Len(hits)][2]))

\* parse_qs(query).get(name, [None])[0]: the first kept value of the name.
QsGetFirst(query, name) ==
    Let(SelectSeq(parse_qsl(query), LAMBDA p : p[1] = name), LAMBDA hits :
        IF hits = <<>> THEN None ELSE Some(hits[1][2]))

-----------------------------------------------------------------------------
(* extract_video_id                                                        *)

H_youtu_be == <<"y","o","u","t","u",".","b","e">>
H_youtube_com == <<"y","o","u","t","u","b","e",".","c","o","m">>
H_www_youtube_com == <<"w","w","w",".">> \o H_youtube_com
P_watch == <<"/","w","a","t","c","h">>
P_embed == <<"/","e","m","b","e","d","/">>
P_v == <<"/","v","/">>

Returned(v) == [raised |-> FALSE, value |-> v]
Raised == [raised |-> TRUE, value |-> None]

\* The host/path rules, on a parsed URL.
VideoIdOfParsed(p) ==
    Let(hostname(p.netloc), LAMBDA host :
        IF host = Some(H_youtu_be)
        THEN Some(SubSeq(p.path, 2, Len(p.path)))
        ELSE IF host \in {Some(H_www_youtube_com), Some(H_youtube_com)}
        THEN (IF p.path = P_watch THEN QsGetFirst(p.query, <<"v">>)
              ELSE IF StartsWith(p.path, P_embed) THEN Some(Split(p.path, "/")[3])
              ELSE IF StartsWith(p.path, P_v) THEN Some(Split(p.path, "/")[3])
              ELSE None)
        ELSE None)

\* extract_video_id(url): the value it returns, or that it raised. url is
\* None when the form has no video_url field: urlparse(None) gives an empty
\* result whose hostname is None.
extract_video_id(url) ==
    IF url = None THEN Returned(None)
    ELSE Let(url[1], LAMBDA u :
         Let(urlparse(u), LAMBDA p :
             IF p.raised THEN Raised ELSE Returned(VideoIdOfParsed(p))))

-----------------------------------------------------------------------------
(* json.loads, over the alphabet of the modelled LLM answers: braces,      *)
(* double quote, colon, comma, the digit 1, the letter a and the space.    *)
(* Over it a JSON value is an object, a string (no escapes: the alphabet   *)
(* has no backslash) or an unsigned integer.                               *)
(* A parsed value is [t |-> "dict" | "str" | "int", v |-> ...]: a dict's v *)
(* is its (key, value) pairs in insertion order, a str's v its characters, *)
(* an int's v the one-element sequence of its number.                      *)

JDict(pairs) == [t |-> "dict", v |-> pairs]
JStr(chars) == [t |-> "str", v |-> chars]
JInt(n) == [t |-> "int", v |-> <<n>>]

ParseFail == [ok |-> FALSE, pos |-> 0, val |-> JDict(<<>>)]
ParseOk(val, pos) == [ok |-> TRUE, pos |-> pos, val |-> val]

CharAt(s, i) == IF i >= 1 /\ i <= Len(s) THEN s[i] ELSE ""

\* WHITESPACE.match(s, i).end(): the first position >= i that holds no
\* whitespace.
SkipWs(s, i) ==
    LET I == {j \in i..Len(s) : s[j] # " "}
    IN IF I = {} THEN Len(s) + 1 ELSE Min(I)

\* dict(pairs): a repeated key keeps its first position and takes the last
\* value.
RECURSIVE DictOfPairs(_, _)
DictOfPairs(pairs, acc) ==
    IF pairs = <<>> THEN acc
    ELSE Let(Head(pairs), LAMBDA p :
         Let({i \in 1..Len(acc) : acc[i][1] = p[1]}, LAMBDA at :
         Let(IF at = {} THEN Append(acc, p) ELSE [acc EXCEPT ![Min(at)] = p],
             LAMBDA acc1 :
         Let(Tail(pairs), LAMBDA rest : DictOfPairs(rest, acc1)))))

\* int(digits) for a run of n ones.
RECURSIVE Ones(_)
Ones(n) == IF n = 0 THEN 0 ELSE 10 * Ones(n - 1) + 1

RECURSIVE ScanOnce(_, _)
RECURSIVE ScanMembers(_, _, _)

\* JSONObject: i is the position after the opening brace.
ScanObject(s, i) ==
    Let(SkipWs(s, i), LAMBDA j :
        IF CharAt(s, j) = "}" THEN ParseOk(JDict(<<>>), j + 1)
        ELSE IF CharAt(s, j) = "\"" THEN ScanMembers(s, j, <<>>)
        ELSE ParseFail)

\* The member loop of JSONObject: i is the position of a key's opening
\* quote, pairs the members read so far.
ScanMembers(s, i, pairs) ==
    Let(Find(s, "\"", i + 1), LAMBDA close :
    Let(SkipWs(s, close + 1), LAMBDA colon :
        IF close = 0 \/ CharAt(s, colon) # ":" THEN ParseFail
        ELSE
    Let(SkipWs(s, colon + 1), LAMBDA start :
    Let(ScanOnce(s, start), LAMBDA val :
        IF ~val.ok THEN ParseFail
        ELSE
    Let(SkipWs(s, val.pos), LAMBDA next :
    Let(SkipWs(s, next + 1), LAMBDA more :
    Let(Append(pairs, <<SubSeq(s, i + 1, close - 1), val.val>>), LAMBDA pairs1 :
        IF CharAt(s, next) = "}"
        THEN ParseOk(JDict(DictOfPairs(pairs1, <<>>)), next + 1)
        ELSE IF CharAt(s, next) = "," /\ CharAt(s, more) = "\""
        THEN ScanMembers(s, more, pairs1)
        ELSE ParseFail)))))))

\* scan_once(s, i): the value that starts exactly at i.
ScanOnce(s, i) ==
    Let(CharAt(s, i), LAMBDA c :
        IF c = "{" THEN ScanObject(s, i + 1)
        ELSE IF c = "\""
        THEN Let(Find(s, "\"", i + 1), LAMBDA close :
                 IF close = 0 THEN ParseFail
                 ELSE ParseOk(JStr(SubSeq(s, i + 1, close - 1)), close + 1))
        ELSE IF c = "1"
        THEN Let({j \in i..Len(s) : s[j] # "1"}, LAMBDA stop :
             Let(IF stop = {} THEN Len(s) + 1 ELSE Min(stop), LAMBDA end :
                 ParseOk(JInt(Ones(end - i)), end)))
        ELSE ParseFail)

\* json.loads(s): the value, when s is one JSON value between optional
\* whitespace; ok is FALSE where json.loads raises JSONDecodeError.
json_loads(text) ==
    Let(text, LAMBDA s :
    Let(SkipWs(s, 1), LAMBDA first :
    Let(ScanOnce(s, first), LAMBDA r :
        IF r.ok /\ SkipWs(s, r.pos) = Len(s) + 1 THEN r ELSE ParseFail)))

-----------------------------------------------------------------------------
(* The requests a client can send.                                         *)

S_https == <<"h","t","t","p","s">>
H_example_com == <<"e","x","a","m","p","l","e",".","c","o","m">>
\* an authority with an opening square bracket and no closing one
H_unclosed == <<"[">> \o H_youtu_be

Schemes == {None, Some(S_https)}
Hosts == {H_youtu_be, H_youtube_com, H_www_youtube_com, H_example_com, H_unclosed}

\* Paths, as their '/'-separated segments: <<>> is the empty path, <<"">>
\* is "/".
Seg_watch == <<"w","a","t","c","h">>
Seg_embed == <<"e","m","b","e","d">>
Paths ==
    { <<>>, << <<>> >>, <<Seg_watch>>, <<Seg_watch, <<>> >>, <<Seg_watch, <<"X">> >>,
      <<Seg_embed>>, <<Seg_embed, <<>> >>, <<Seg_embed, <<"X">> >>,
      <<Seg_embed, <<"X">>, <<"Y">> >>, << <<"v">> >>, << <<"v">>, <<"X">> >>,
      << <<"v">>, <<"X">>, <<>> >>, << <<"X">> >>, << <<"X">>, <<"Y">> >>,
      << <<"v","X">>, <<"Y">> >> }

\* Query parameters name=value; a query is None (no '?') or a sequence of
\* them.
Params == {<<n, v>> : n \in {<<"v">>, <<"t">>}, v \in {<<>>, <<"X">>, <<"Y">>}}
Queries(n) == {None} \cup {Some(q) : q \in SeqsUpTo(Params, n)}

UrlParts(n) == [scheme : Schemes, host : Hosts, path : Paths, query : Queries(n)]

\* The URLs of the handler runs: every host, three paths, with and without v.
HandlerUrlParts ==
    [scheme : {Some(S_https)}, host : Hosts,
     path : {<<Seg_watch>>, << <<"X">> >>, <<Seg_embed, <<"X">> >>},
     query : {None, Some(<< <<(<<"v">>), <<"X">> >> >>)}]

RECURSIVE RenderPath(_)
RenderPath(segs) ==
    IF segs = <<>> THEN <<>> ELSE <<"/">> \o Head(segs) \o RenderPath(Tail(segs))

RECURSIVE RenderParams(_)
RenderParams(q) ==
    IF q = <<>> THEN <<>>
    ELSE Head(q)[1] \o <<"=">> \o Head(q)[2]
         \o (IF Len(q) > 1 THEN <<"&">> ELSE <<>>) \o RenderParams(Tail(q))

\* The URL string a client writes for the parts.
RenderUrl(p) ==
    (IF p.scheme = None THEN <<>> ELSE p.scheme[1] \o <<":","/","/">>)
    \o p.host \o RenderPath(p.path)
    \o (IF p.query = None THEN <<>> ELSE <<"?">> \o RenderParams(p.query[1]))

\* What YouTubeTranscriptApi.get_transcript does: it raises, or returns the
\* caption fragments' texts.
FragmentTexts == {<<>>, <<"a">>}
ServiceOutcomes ==
    {[raised |-> TRUE, items |-> <<>>]}
    \cup {[raised |-> FALSE, items |-> f] : f \in SeqsUpTo(FragmentTexts, MaxFragments)}

\* What gemini_model.generate_content(prompt) followed by response.text
\* does: the call raises, the response has no readable text (response.text
\* raises), or the text is read. msg is str(e) of the exception.
LlmMessages == {<<>>, <<"quota exceeded">>}
LlmOutcomes(texts) ==
    {[kind |-> k, text |-> <<>>, msg |-> m] : k \in {"raise", "notext"}, m \in LlmMessages}
    \cup {[kind |-> "text", text |-> t, msg |-> <<>>] : t \in texts}

\* LLM answers to the analysis prompt: free text, a JSON-like body, free text.
B_empty == <<"{","}">>
B_a1 == <<"{","\"","a","\"",":","1","}">>
JsonBodies ==
    { <<>>, B_empty, <<"{"," ","}">>, B_a1,
      <<"{","\"","a","\""," ",":"," ","\"","a","\""," ",",","\"","\"",":","1","1","}">>,
      <<"{","\"","a","\"",":">> \o B_a1 \o <<"}">>,
      <<"{","\"","a","\"",":","1",",","\"","a","\"",":","\"","a","\"","}">>,
      <<"{","\"","a","\"",":","1",",","}">>,
      <<"{","\"","a","\"",":","1">>,
      <<"{","a",":","1","}">>,
      <<"{","\"","a","\"",":","}">> }
JunkAlphabet == {"{", "}", " ", "\"", "a"}
LlmTexts(pre, suf) ==
    {p \o b \o q : p \in SeqsUpTo(JunkAlphabet, pre), b \in JsonBodies,
                   q \in SeqsUpTo(JunkAlphabet, suf)}

\* The LLM answers of the handler runs.
HandlerTexts ==
    { <<>>, <<"a">>, <<"}","{">>, <<" ">> \o B_empty, B_a1,
      <<"a"," ">> \o B_a1 \o <<" ","a">>,
      B_a1 \o <<"}">>, B_empty \o <<" ","}","}">>,
      <<"{","a","}">>, <<"{","\"","a","\"",":","1",",","}">> }

\* LLM answers to the question prompt.
AnswerTexts == {<<>>, <<" ">>, <<"a">>, <<" ","a"," ","a"," ">>}

\* request.get_json() of an ask request: None (the body is the JSON null),
\* or an object; question and transcript are None when the key is missing.
AskBodies ==
    {None} \cup
    {Some([question |-> q, transcript |-> t]) :
        q \in {None, Some(<<>>), Some(<<"q">>)},
        t \in {None, Some(<<>>), Some(<<"a">>)}}

-----------------------------------------------------------------------------
(* get_transcript, analyze_transcript, answer_question                     *)

\* get_transcript(video_id, lang_code): the fragments joined by single
\* spaces; None when the service call raises.
get_transcript(outcome) ==
    IF outcome.raised THEN None ELSE Some(JoinSpace(outcome.items))

K_error == <<"e","r","r","o","r">>
Msg_NoBoundaries == <<"The model's response did not contain valid JSON.">>
Msg_AfterRefinement == <<"The model's response was not valid JSON after refinement">>

Msg_TranscriptUnavailable == <<"Unable to extract transcript from the video.">>

\* {"error": message}
ErrorRecord(msg) == << <<K_error, JStr(msg)>> >>

\* raw_text.find('{') and raw_text.rfind('}')
StartIndex(raw) == Find(raw, "{", 1)
EndIndex(raw) == RFind(raw, "}")

\* start_index != -1 and end_index != -1 and start_index < end_index
HasBoundaries(raw) ==
    StartIndex(raw) # 0 /\ EndIndex(raw) # 0 /\ StartIndex(raw) < EndIndex(raw)

\* raw_text[start_index:end_index + 1]
JsonString(raw) == SubSeq(raw, StartIndex(raw), EndIndex(raw))

\* Mutant of TrimLast: two characters are removed at a time.
TrimLast_Two(s) == SubSeq(s, 1, Len(s) - 2)

\* Mutant of TrimLast: nothing is removed.
TrimLast_Keep(s) == s

\* temp_string[:-1]
TrimLast(s) == SubSeq(s, 1, Len(s) - 1)

\* Mutant of answer_question: the text is returned as the LLM gave it.
answer_question_Unstripped(outcome) ==
    IF outcome.kind = "text" THEN outcome.text
    ELSE <<"Sorry, I could not generate an answer at this time.">>

\* answer_question: the stripped text, or the fixed fallback when the call
\* or the reading of its text raises.
FallbackAnswer == <<"Sorry, I could not generate an answer at this time.">>
answer_question(outcome) ==
    IF outcome.kind = "text" THEN Strip(outcome.text) ELSE FallbackAnswer

\* "if not video_id" of index.
IdRejected(id) == ~Truthy(id)

\* Mutant of NeedsFallback: the second fetch is made whatever the first gave.
NeedsFallback_Always(t) == TRUE

\* "if not transcript" of index, before the second fetch.
NeedsFallback(t) == ~Truthy(t)

\* Mutant of TranscriptObtained: the analysis is run without the check.
TranscriptObtained_Unchecked(t) == TRUE

\* "if transcript" of index, before the analysis.
TranscriptObtained(t) == Truthy(t)

\* Mutant of AnalysisAccepted: "if analysis is not None".
AnalysisAccepted_NotNone(a) == a # None

\* Mutant of AnalysisAccepted: an error record is answered as a failure.
AnalysisAccepted_NoError(a) == Truthy(a) /\ a[1][1][1] # <<"e","r","r","o","r">>

\* "if analysis" of index.
AnalysisAccepted(a) == Truthy(a)

\* "if not question or not transcript" of ask_question_route.
AskRejected(d) == ~Truthy(d.question) \/ ~Truthy(d.transcript)

-----------------------------------------------------------------------------
(* The handlers.                                                           *)

Reply(status, view, body) == [status |-> status, view |-> view, body |-> body]

\* An exception that leaves the handler: Flask answers 500.
Unhandled(exc) == Reply(500, "unhandled", <<exc>>)

TranscriptCall(lang, ret) ==
    [svc |-> "transcript", arg |-> lang, ok |-> ret # None, ret |-> ret, msg |-> <<>>]
LlmCall(purpose, o) ==
    [svc |-> "llm", arg |-> purpose, ok |-> o.kind = "text",
     ret |-> IF o.kind = "text" THEN Some(o.text) ELSE None, msg |-> o.msg]

Init ==
    /\ route = "" /\ url_parts = None /\ pc = "idle"
    /\ video_url = None /\ video_id = None /\ transcript = None
    /\ raw_text = None /\ temp_string = <<>> /\ analysis = None
    /\ data = None /\ response = <<>> /\ calls = <<>>

\* GET /: the input form.
GetIndex ==
    /\ pc = "idle"
    /\ route' = "GET /"
    /\ response' = Append(response, Reply(200, "index.html", <<>>))
    /\ pc' = "done"
    /\ UNCHANGED <<url_parts, video_url, video_id, transcript, raw_text,
                   temp_string, analysis, data, calls>>

\* POST /: video_url = request.form.get("video_url").
PostIndex(parts) ==
    /\ pc = "idle"
    /\ route' = "POST /"
    /\ \/ \E p \in parts : url_parts' = Some(p) /\ video_url' = Some(RenderUrl(p))
       \/ url_parts' = None /\ video_url' = None
    /\ pc' = "received"
    /\ UNCHANGED <<video_id, transcript, raw_text, temp_string, analysis,
                   data, response, calls>>

\* video_id = extract_video_id(video_url); if not video_id: 400.
ResolveId ==
    /\ pc = "received"
    /\ \E r \in {extract_video_id(video_url)} :
          IF r.raised
          THEN /\ response' = Append(response, Unhandled("ValueError"))
               /\ pc' = "done"
               /\ UNCHANGED video_id
          ELSE /\ video_id' = r.value
               /\ IF IdRejected(r.value)
                  THEN /\ response' = Append(response,
                              Reply(400, "text", <<"Invalid YouTube URL provided.">>))
                       /\ pc' = "done"
                  ELSE /\ pc' = "id_resolved"
                       /\ UNCHANGED response
    /\ UNCHANGED <<route, url_parts, video_url, transcript, raw_text,
                   temp_string, analysis, data, calls>>

\* transcript = get_transcript(video_id)
FetchEnglish ==
    /\ pc = "id_resolved"
    /\ \E o \in ServiceOutcomes :
       \E t \in {get_transcript(o)} :
         /\ transcript' = t
         /\ calls' = Append(calls, TranscriptCall("en", t))
         /\ pc' = IF NeedsFallback(t) THEN "en_failed" ELSE "fetch_done"
    /\ UNCHANGED <<route, url_parts, video_url, video_id, raw_text,
                   temp_string, analysis, data, response>>

\* transcript = get_transcript(video_id, lang_code='hi')
FetchHindi ==
    /\ pc = "en_failed"
    /\ \E o \in ServiceOutcomes :
       \E t \in {get_transcript(o)} :
         /\ transcript' = t
         /\ calls' = Append(calls, TranscriptCall("hi", t))
    /\ pc' = "fetch_done"
    /\ UNCHANGED <<route, url_parts, video_url, video_id, raw_text,
                   temp_string, analysis, data, response>>

\* if transcript: ... else: 500
CheckTranscript ==
    /\ pc = "fetch_done"
    /\ IF TranscriptObtained(transcript)
       THEN pc' = "transcript_fetched" /\ UNCHANGED response
       ELSE /\ response' = Append(response,
                   Reply(500, "text", Msg_TranscriptUnavailable))
            /\ pc' = "done"
    /\ UNCHANGED <<route, url_parts, video_url, video_id, transcript, raw_text,
                   temp_string, analysis, data, calls>>

\* analyze_transcript, from the LLM call to the first json.loads.
Analyze(texts) ==
    /\ pc = "transcript_fetched"
    /\ \E o \in LlmOutcomes(texts) :
         /\ calls' = Append(calls, LlmCall("analysis", o))
         /\ IF o.kind # "text"
            THEN /\ analysis' = Some(ErrorRecord(o.msg))
                 /\ pc' = "analysis_returned"
                 /\ UNCHANGED <<raw_text, temp_string>>
            ELSE \E raw \in {Strip(o.text)} :
                    /\ raw_text' = Some(raw)
                    /\ IF ~HasBoundaries(raw)
                       THEN /\ analysis' = Some(ErrorRecord(Msg_NoBoundaries))
                            /\ pc' = "analysis_returned"
                            /\ UNCHANGED temp_string
                       ELSE \E json_string \in {JsonString(raw)} :
                            \E parsed \in {json_loads(json_string)} :
                              IF parsed.ok
                              THEN /\ analysis' = Some(parsed.val.v)
                                   /\ pc' = "analysis_returned"
                                   /\ UNCHANGED temp_string
                              ELSE /\ temp_string' = json_string
                                   /\ pc' = "refining"
                                   /\ UNCHANGED analysis
    /\ UNCHANGED <<route, url_parts, video_url, video_id, transcript, data, response>>

\* One pass of "while temp_string:", and the return after it.
Refine ==
    /\ pc = "refining"
    /\ IF temp_string = <<>>
       THEN /\ analysis' = Some(ErrorRecord(Msg_AfterRefinement))
            /\ pc' = "analysis_returned"
            /\ UNCHANGED temp_string
       ELSE \E parsed \in {json_loads(temp_string)} :
              IF parsed.ok
              THEN /\ analysis' = Some(parsed.val.v)
                   /\ pc' = "analysis_returned"
                   /\ UNCHANGED temp_string
              ELSE /\ temp_string' = TrimLast(temp_string)
                   /\ UNCHANGED <<analysis, pc>>
    /\ UNCHANGED <<route, url_parts, video_url, video_id, transcript, raw_text,
                   data, response, calls>>

\* if analysis: render result.html, else: 500
RenderAnalysis ==
    /\ pc = "analysis_returned"
    /\ response' = Append(response,
           IF AnalysisAccepted(analysis)
           THEN Reply(200, "result.html", analysis[1])
           ELSE Reply(500, "text",
                      <<"Error analyzing the transcript using Google Gemini API.">>))
    /\ pc' = "done"
    /\ UNCHANGED <<route, url_parts, video_url, video_id, transcript, raw_text,
                   temp_string, analysis, data, calls>>

\* POST /ask_question: data = request.get_json()
PostAsk ==
    /\ pc = "idle"
    /\ route' = "POST /ask_question"
    /\ \E d \in AskBodies : data' = d
    /\ pc' = "ask_received"
    /\ UNCHANGED <<url_parts, video_url, video_id, transcript, raw_text,
                   temp_string, analysis, response, calls>>

\* data.get('question'), data.get('transcript') and the check of both.
AskValidate ==
    /\ pc = "ask_received"
    /\ IF data = None
       THEN /\ response' = Append(response, Unhandled("AttributeError"))
            /\ pc' = "done"
       ELSE IF AskRejected(data[1])
       THEN /\ response' = Append(response,
                   Reply(400, "json", << <<K_error, <<"Missing question or transcript.">> >> >>))
            /\ pc' = "done"
       ELSE pc' = "ask_validated" /\ UNCHANGED response
    /\ UNCHANGED <<route, url_parts, video_url, video_id, transcript, raw_text,
                   temp_string, analysis, data, calls>>

K_answer == <<"a","n","s","w","e","r">>

\* answer = answer_question(question, transcript); jsonify({"answer": answer})
AskAnswer ==
    /\ pc = "ask_validated"
    /\ \E o \in LlmOutcomes(AnswerTexts) :
       \E answer \in {answer_question(o)} :
         /\ calls' = Append(calls, LlmCall("answer", o))
         /\ response' = Append(response, Reply(200, "json", << <<K_answer, answer>> >>))
    /\ pc' = "done"
    /\ UNCHANGED <<route, url_parts, video_url, video_id, transcript, raw_text,
                   temp_string, analysis, data>>

Next ==
    \/ GetIndex
    \/ PostIndex(HandlerUrlParts)
    \/ ResolveId
    \/ FetchEnglish
    \/ FetchHindi
    \/ CheckTranscript
    \/ Analyze(HandlerTexts)
    \/ Refine
    \/ RenderAnalysis
    \/ PostAsk
    \/ AskValidate
    \/ AskAnswer

Spec == Init /\ [][Next]_vars

\* A request that was received is handled to its end: the handler runs on,
\* and each external call returns or fails in finite time.
FairSpec == Spec /\ WF_vars(Next)

\* extract_video_id alone: every generated URL is posted and resolved.
NextUrl ==
    \/ PostIndex(UrlParts(MaxParams))
    \/ ResolveId

SpecUrl == Init /\ [][NextUrl]_vars

\* analyze_transcript alone, from a request whose transcript was fetched:
\* every generated LLM answer goes through the JSON recovery.
InitJson ==
    LET p == [scheme |-> Some(S_https), host |-> H_youtu_be,
              path |-> << <<"X">> >>, query |-> None]
    IN /\ route = "POST /" /\ url_parts = Some(p) /\ pc = "transcript_fetched"
       /\ video_url = Some(RenderUrl(p)) /\ video_id = Some(<<"X">>)
       /\ transcript = Some(<<"a">>)
       /\ raw_text = None /\ temp_string = <<>> /\ analysis = None
       /\ data = None /\ response = <<>>
       /\ calls = <<TranscriptCall("en", Some(<<"a">>))>>

NextJson ==
    \/ Analyze(LlmTexts(MaxPrefix, MaxSuffix))
    \/ Refine

SpecJson == InitJson /\ [][NextJson]_vars

-----------------------------------------------------------------------------
(* What the claims speak of.                                               *)

TranscriptCalls == SelectSeq(calls, LAMBDA c : c.svc = "transcript")
LlmCalls == SelectSeq(calls, LAMBDA c : c.svc = "llm")

AnalyzeRequest == route = "POST /"
AskRequest == route = "POST /ask_question"

\* The request ended with exactly this status and view.
Answered(status, view) ==
    /\ pc = "done" /\ Len(response) = 1
    /\ response[1].status = status /\ response[1].view = view

\* The request ended with the rendered result view of the dict d.
RenderedResult(d) ==
    /\ Answered(200, "result.html")
    /\ response[1].body = d

\* An exception left the handler.
EndedUnhandled == \E i \in 1..Len(response) : response[i].view = "unhandled"

\* The four states of the analyze handler, in order; the request's end last.
Stage ==
    CASE pc \in {"idle"} -> 0
      [] pc \in {"received", "ask_received"} -> 1
      [] pc \in {"id_resolved", "en_failed", "fetch_done", "ask_validated"} -> 2
      [] pc \in {"transcript_fetched", "refining"} -> 3
      [] pc \in {"analysis_returned"} -> 4
      [] pc \in {"done"} -> 5

-----------------------------------------------------------------------------
(* C1: the analyze handler only moves forward through received,            *)
(* id-resolved, transcript-fetched, analyzed; the transcript service is    *)
(* called only after the resolver returned an identifier, the LLM only     *)
(* after a transcript was obtained; an absent identifier ends the request  *)
(* with 400 before any external call, and two absent fetches end it with   *)
(* 500 before any LLM call.                                                *)

C1_Order ==
    AnalyzeRequest =>
      /\ calls # <<>> => video_id # None /\ Stage >= 2
      /\ \A i \in 1..Len(calls) :
           calls[i].svc = "llm" =>
             \E j \in 1..(i - 1) :
               calls[j].svc = "transcript" /\ calls[j].ret # None
      /\ (Stage >= 2 /\ ~EndedUnhandled /\ video_id = None) =>
             Answered(400, "text") /\ calls = <<>>
      /\ (Len(calls) >= 2 /\ calls[1].ret = None /\ calls[2].ret = None
          /\ pc # "fetch_done") =>
             Answered(500, "text") /\ Len(calls) = 2

C1_Forward == [][Stage' >= Stage]_vars

C1_AnalyzeMovesForward == [](C1_Order) /\ C1_Forward

\* Both fetches failed and the request ended with 500, the LLM never called.
C1_Witness ==
    /\ AnalyzeRequest /\ pc = "done" /\ Len(calls) = 2
    /\ calls[1].ret = None /\ calls[2].ret = None
    /\ response[1].status = 500

-----------------------------------------------------------------------------
(* C2: the transcript service is called first with en, a second time with  *)
(* hi only if the en fetch returned absent, never more than twice; when    *)
(* the en fetch is absent and the hi fetch returns a transcript, the       *)
(* handler proceeds to analysis with the Hindi transcript and does not     *)
(* answer with the transcript failure.                                     *)

\* The handler went on to the analysis with the transcript t.
ProceededWith(t) ==
    /\ transcript = t
    /\ pc \in {"transcript_fetched", "refining", "analysis_returned", "done"}
    /\ pc = "done" =>
         /\ Len(LlmCalls) = 1
         /\ response[1].view = "text" => response[1].body # Msg_TranscriptUnavailable

C2_CallOrder ==
    /\ (AnalyzeRequest /\ Stage >= 2 /\ pc \notin {"id_resolved", "done"}) =>
          Len(TranscriptCalls) >= 1
    /\ Len(TranscriptCalls) >= 1 => TranscriptCalls[1].arg = "en"
    /\ Len(TranscriptCalls) >= 2 => TranscriptCalls[2].arg = "hi"
    /\ Len(TranscriptCalls) <= 2

\* The claim as stated: absent is None, a transcript is any string.
C2_AsStated ==
    /\ C2_CallOrder
    /\ Len(TranscriptCalls) >= 2 => TranscriptCalls[1].ret = None
    /\ (Len(TranscriptCalls) = 2 /\ TranscriptCalls[1].ret = None
        /\ TranscriptCalls[2].ret # None /\ pc # "fetch_done") =>
          ProceededWith(TranscriptCalls[2].ret)

\* C2 as amended: the second call is made only if the en fetch returned
\* absent or the empty string, and the handler proceeds when the hi fetch
\* returns a non-empty transcript.
C2_Fallback ==
    /\ C2_CallOrder
    /\ Len(TranscriptCalls) >= 2 => ~Truthy(TranscriptCalls[1].ret)
    /\ (Len(TranscriptCalls) = 2 /\ ~Truthy(TranscriptCalls[1].ret)
        /\ Truthy(TranscriptCalls[2].ret) /\ pc # "fetch_done") =>
          ProceededWith(TranscriptCalls[2].ret)

\* The en fetch returned the empty string, the hi fetch a transcript, and
\* the result view was rendered.
C2_Witness ==
    /\ Len(TranscriptCalls) = 2
    /\ TranscriptCalls[1].ret = Some(<<>>)
    /\ Truthy(TranscriptCalls[2].ret)
    /\ Answered(200, "result.html")

-----------------------------------------------------------------------------
(* C3: once a transcript has been fetched, whatever analyze_transcript     *)
(* returns (any recovered object, also one with no fields, or an error     *)
(* record), the handler answers with the rendered result view of that      *)
(* value, never with a 5xx status.                                         *)

C3_AsStated ==
    (AnalyzeRequest /\ pc = "done" /\ analysis # None) => RenderedResult(analysis[1])

\* C3 as amended: a returned value with at least one field is rendered; a
\* recovered object with no fields is answered with status 500.
C3_RendersNonEmpty ==
    (AnalyzeRequest /\ pc = "done" /\ analysis # None) =>
      IF analysis[1] # <<>> THEN RenderedResult(analysis[1])
      ELSE Answered(500, "text")

\* The LLM answered with an empty object and the request ended with 500.
C3_Witness ==
    /\ AnalyzeRequest /\ pc = "done" /\ analysis = Some(<<>>)
    /\ response[1].status = 500

-----------------------------------------------------------------------------
(* C4: when the LLM call of the analysis fails (it raises, or its response *)
(* has no readable text), analyze_transcript returns a record whose only   *)
(* field is error, carrying the message, and the handler renders it        *)
(* through the result view instead of answering 5xx.                       *)

C4_LlmFailureRendered ==
    \A i \in 1..Len(calls) :
      (calls[i].svc = "llm" /\ calls[i].arg = "analysis" /\ ~calls[i].ok) =>
        /\ pc \in {"analysis_returned", "done"}
        /\ analysis = Some(<< <<K_error, [t |-> "str", v |-> calls[i].msg]>> >>)
        /\ pc = "done" => RenderedResult(analysis[1])

\* The LLM call failed with an empty message and the result view was sent.
C4_Witness ==
    /\ Len(LlmCalls) = 1 /\ ~LlmCalls[1].ok /\ LlmCalls[1].msg = <<>>
    /\ LlmCalls[1].arg = "analysis"
    /\ Answered(200, "result.html")

-----------------------------------------------------------------------------
(* C5: JSON recovery. Without a '{', without a '}', or with the first '{'  *)
(* not before the last '}', the result is an error record; otherwise, with *)
(* the candidate from the first '{' to the last '}', it is the strict      *)
(* parse of the longest prefix of the candidate that is valid JSON, and an *)
(* error record if no non-empty prefix parses.                             *)

IsErrorRecord(a) ==
    /\ a # None /\ Len(a[1]) = 1
    /\ a[1][1][1] = K_error
    /\ a[1][1][2].t = "str"
    /\ a[1][1][2].v \in {Msg_NoBoundaries, Msg_AfterRefinement}

RecoveryOf(t, a) ==
    LET opens == {i \in 1..Len(t) : t[i] = "{"}
        closes == {i \in 1..Len(t) : t[i] = "}"}
    IN IF opens = {} \/ closes = {} THEN IsErrorRecord(a)
       ELSE IF ~(Min(opens) < Max(closes)) THEN IsErrorRecord(a)
       ELSE LET cand == SubSeq(t, Min(opens), Max(closes))
                valid == {n \in 1..Len(cand) : json_loads(SubSeq(cand, 1, n)).ok}
            IN IF valid = {} THEN IsErrorRecord(a)
               ELSE a = Some(json_loads(SubSeq(cand, 1, Max(valid))).val.v)

C5_JsonRecovery ==
    /\ (pc = "analysis_returned" /\ raw_text # None) => RecoveryOf(raw_text[1], analysis)
    /\ (raw_text # None /\ LlmCalls # <<>>) =>
          /\ raw_text[1] # <<>> =>
               raw_text[1][1] # " " /\ raw_text[1][Len(raw_text[1])] # " "
          /\ \E i \in 0..Len(LlmCalls[1].ret[1]) :
               SubSeq(LlmCalls[1].ret[1], i + 1, i + Len(raw_text[1])) = raw_text[1]

\* A non-empty object was recovered from a proper prefix of the candidate.
C5_Witness ==
    /\ pc = "analysis_returned" /\ raw_text # None
    /\ temp_string # <<>>
    /\ Len(temp_string) < Len(JsonString(raw_text[1]))
    /\ Truthy(analysis) /\ ~IsErrorRecord(analysis)

-----------------------------------------------------------------------------
(* C6: extract_video_id follows the host/path rules for every URL:         *)
(* youtu.be gives the path without its leading '/'; youtube.com and        *)
(* www.youtube.com give the first value of query parameter v when the path *)
(* is exactly /watch (absent when v is missing) and the third              *)
(* '/'-delimited path segment under /embed/ and /v/; every other host or   *)
(* path gives absent.                                                      *)

\* The URL was resolved and the parser accepted it.
Resolved == AnalyzeRequest /\ Stage >= 2 /\ url_parts # None /\ ~EndedUnhandled

\* The values of the parameters named v, in the order the client wrote them.
ValuesOfV(query) ==
    IF query = None THEN <<>>
    ELSE LET vs == SelectSeq(query[1], LAMBDA pr : pr[1] = <<"v">>)
         IN [i \in 1..Len(vs) |-> vs[i][2]]

FirstOf(values) == IF values = <<>> THEN None ELSE Some(values[1])

\* The first value of v, an empty first value read as a missing one.
FirstOrAbsent(values) ==
    IF values = <<>> \/ values[1] = <<>> THEN None ELSE Some(values[1])

\* The identifier the rules give for the parts; pick chooses the value of v.
RuleResult(p, pick(_)) ==
    IF p.scheme = None THEN None
    ELSE IF p.host = H_youtu_be
    THEN Some(IF p.path = <<>> THEN <<>> ELSE Tail(RenderPath(p.path)))
    ELSE IF p.host \in {H_youtube_com, H_www_youtube_com}
    THEN (IF p.path = <<Seg_watch>> THEN pick(ValuesOfV(p.query))
          ELSE IF Len(p.path) >= 2 /\ p.path[1] \in {Seg_embed, <<"v">>}
          THEN Some(p.path[2])
          ELSE None)
    ELSE None

\* The claim as stated: the first value of v.
C6_AsStated ==
    Resolved => video_id = RuleResult(url_parts[1], FirstOrAbsent)

FirstNonEmptyOf(values) == FirstOf(SelectSeq(values, LAMBDA v : v # <<>>))

\* C6 as amended: under /watch the identifier is the first non-empty value
\* of v, absent when v is missing or has only empty values.
C6_HostPathRules ==
    Resolved => video_id = RuleResult(url_parts[1], FirstNonEmptyOf)

\* www.youtube.com/watch with an empty v before v=Y, resolved to Y.
C6_Witness ==
    /\ Resolved
    /\ url_parts[1].host = H_www_youtube_com
    /\ url_parts[1].path = <<Seg_watch>>
    /\ ValuesOfV(url_parts[1].query) = << <<>>, <<"Y">> >>
    /\ video_id = Some(<<"Y">>)

-----------------------------------------------------------------------------
(* C7: extract_video_id never raises: a URL the parser cannot parse gives  *)
(* absent, and the analyze handler answers it with status 400.             *)

C7_UnparsableIsAbsent ==
    (AnalyzeRequest /\ pc = "done" /\ calls = <<>>) =>
       ~EndedUnhandled /\ Answered(400, "text")

-----------------------------------------------------------------------------
(* C8: an ask request in which question or transcript is missing or empty  *)
(* is answered with status 400 and an error body, the LLM not called; the  *)
(* LLM is called only when both are present and non-empty.                 *)

\* The body of the request has both fields, neither empty.
AskComplete ==
    /\ data # None
    /\ Truthy(data[1].question) /\ Truthy(data[1].transcript)

C8_MissingFieldIs400 ==
    AskRequest =>
      /\ (pc \notin {"ask_received"} /\ ~AskComplete) =>
            /\ Answered(400, "json")
            /\ response[1].body[1][1] = K_error
            /\ calls = <<>>
      /\ calls # <<>> => AskComplete

-----------------------------------------------------------------------------
(* C9: an ask request with a non-empty question and a non-empty transcript *)
(* is answered with status 200 and an answer field: the fixed fallback     *)
(* string when the LLM call fails, the trimmed response text otherwise.    *)

\* text without its leading and trailing spaces.
Trimmed(text) ==
    LET keep == {i \in 1..Len(text) : text[i] # " "}
    IN IF keep = {} THEN <<>>
       ELSE [i \in 1..(Max(keep) - Min(keep) + 1) |-> text[Min(keep) + i - 1]]

C9_AskAlwaysAnswers ==
    (AskRequest /\ AskComplete /\ pc = "done") =>
      /\ Answered(200, "json")
      /\ Len(calls) = 1 /\ calls[1].svc = "llm"
      /\ response[1].body =
           << <<K_answer,
                IF calls[1].ok THEN Trimmed(calls[1].ret[1])
                ELSE <<"Sorry, I could not generate an answer at this time.">> >> >>

\* The LLM text had spaces around it and the answer is the text without them.
C9_Witness ==
    /\ AskRequest /\ pc = "done" /\ Len(calls) = 1 /\ calls[1].ok
    /\ calls[1].ret[1] = <<" ","a"," ","a"," ">>
    /\ response[1].body = << <<K_answer, <<"a"," ","a">> >> >>

-----------------------------------------------------------------------------
(* C10: if every external call returns or fails in finite time, every      *)
(* analyze request eventually produces exactly one response, after at most *)
(* two transcript fetches and at most one LLM call; the trimming loop      *)
(* terminates because the candidate gets strictly shorter on every failed  *)
(* parse and the loop stops when it is empty.                              *)

C10_Bounded ==
    /\ Len(TranscriptCalls) <= 2 /\ Len(LlmCalls) <= 1 /\ Len(response) <= 1
    /\ pc = "done" => Len(response) = 1

C10_Shrinks ==
    [][(pc = "refining" /\ pc' = "refining") =>
          Len(temp_string') < Len(temp_string)]_vars

C10_AnalyzeTerminates ==
    /\ [](C10_Bounded)
    /\ C10_Shrinks
    /\ (AnalyzeRequest ~> (pc = "done" /\ Len(response) = 1))
    /\ (pc = "refining" ~> pc # "refining")

\* A request that took both fetches, the LLM call and the trimming loop to
\* its last character, and was answered once.
C10_Witness ==
    /\ AnalyzeRequest /\ pc = "done" /\ Len(response) = 1
    /\ Len(TranscriptCalls) = 2 /\ Len(LlmCalls) = 1
    /\ raw_text # None /\ HasBoundaries(raw_text[1]) /\ temp_string = <<>>
    /\ analysis = Some(<< <<K_error, [t |-> "str", v |-> Msg_AfterRefinement]>> >>)

====
